---- MODULE Spec2Model ----
(***************************************************************************)
(* Model of src/smart_retry_handler.py: SmartRetryHandler, the per-key     *)
(* circuit breaker (check_circuit_breaker, record_success, record_failure, *)
(* get_circuit_breaker_status) and the retry loop execute_with_retry.      *)
(*                                                                         *)
(* The handler runs on one asyncio event loop: the three breaker methods   *)
(* are synchronous and contain no await, so each is one atomic step.  The  *)
(* only suspension points of execute_with_retry are the awaited operation  *)
(* (line 263) and the backoff sleep (line 298).                            *)
(*                                                                         *)
(* Optional[float] values are modelled as sequences: << >> is None and     *)
(* <<t>> is the value t.  Time is an integer clock.                        *)
(***************************************************************************)
EXTENDS Integers, Sequences, FiniteSets, TLC

VARIABLES
    config,            \* SmartRetryConfig of the handler (fixed at construction)
    circuit_breakers,  \* Dict[str, SmartCircuitBreakerState]
    now,               \* time.time()
    callers,           \* the execute_with_retry coroutines
    last,              \* observation: the last breaker method call and its result
    hist               \* observation: per-key history counters used by the properties

vars == << config, circuit_breakers, now, callers, last, hist >>

----------------------------------------------------------------------------
(* Bounds of the model *)

MaxTime == 2            \* the clock runs from 0 to MaxTime
MaxThreshold == 2       \* failure_threshold is drawn from 1..MaxThreshold
RecoveryTimeout == 1    \* recovery_timeout of the configurations
HalfOpenMaxCalls == 2   \* half_open_max_calls of the configurations
MaxAttempts == 2        \* max_attempts is drawn from 1..MaxAttempts
MaxFailureCount == 3    \* record_failure is not called at this failure_count
MaxSuccessCount == 3    \* record_success is not called at this success_count
MaxChecks == 3          \* checks followed within one half-open episode
MaxRateLimits == 2      \* consecutive rate limits, outside the rate-limit scenario
MaxCalls == 3           \* execute_with_retry calls begun in one run
ScenarioThreshold == 5  \* failure_threshold of the rate-limit scenario
MaxBaseDelay == 2       \* base_delay of the delay policies runs from -1 to MaxBaseDelay
MaxMaxDelay == 3        \* max_delay of the delay policies runs from 0 to MaxMaxDelay
MaxFactor == 2          \* exponential_factor of the delay policies runs from 0 to MaxFactor
MaxDelayAttempt == 3    \* calculate_delay is called with attempt in 1..MaxDelayAttempt

(* The literal of line 224: rate limits count as failures above it *)
RATE_LIMIT_STREAK == 15

(* The literal of line 202: successes needed to close a half-open breaker *)
HALF_OPEN_SUCCESSES == 2

----------------------------------------------------------------------------
(* Data *)

None == << >>
Some(x) == << x >>

\* (mutant of Min: the first argument, whatever the second)
MinUnclamped(a, b) == a

\* min(a, b)
Min(a, b) == IF a < b THEN a ELSE b

Keys == {"K"}

\* the tasks that call execute_with_retry
Callers == {"a", "b"}

\* class ErrorType
ErrorType == {"rate_limit", "server_error", "network_error", "timeout_error",
              "service_unavailable", "unknown"}

\* dataclass SmartCircuitBreakerState with its defaults
SmartCircuitBreakerState ==
    [failure_count |-> 0,
     success_count |-> 0,
     last_failure_time |-> None,
     last_success_time |-> None,
     state |-> "CLOSED",
     half_open_calls |-> 0,
     consecutive_rate_limits |-> 0,
     last_rate_limit_time |-> None]

\* `if key not in self.circuit_breakers: self.circuit_breakers[key] = SmartCircuitBreakerState()`
Ensure(cb, key) ==
    IF key \in DOMAIN cb THEN cb
    ELSE [k \in DOMAIN cb \cup {key} |-> IF k = key THEN SmartCircuitBreakerState ELSE cb[k]]

----------------------------------------------------------------------------
(* check_circuit_breaker *)

\* lines 162-165: the timestamp the cooldown is measured from
FailureTime(b) ==
    IF b.last_failure_time = None /\ b.last_rate_limit_time # None
    THEN b.last_rate_limit_time
    ELSE b.last_failure_time

\* (mutant of CooldownOver: the cooldown ends one clock unit early)
CooldownOverEarly(cfg, ft, t) == ft # None /\ t - ft[1] >= cfg.recovery_timeout

\* line 167: the cooldown has run out
CooldownOver(cfg, ft, t) == ft # None /\ t - ft[1] > cfg.recovery_timeout

\* (mutant of ProbeSlotFree: one probe too many)
ProbeSlotFreeOffByOne(cfg, b) == b.half_open_calls <= cfg.half_open_max_calls

\* line 183: a probe slot is free
ProbeSlotFree(cfg, b) == b.half_open_calls < cfg.half_open_max_calls

\* (mutant of Refuse: a refused check is counted as a probe)
RefuseCounting(b) == [b |-> [b EXCEPT !.half_open_calls = @ + 1], result |-> FALSE]

\* lines 180 and 186: `return False`, the entry untouched
Refuse(b) == [b |-> b, result |-> FALSE]

\* lines 159-188 on the entry b of the key: the new entry and the returned bool
CheckBreaker(cfg, b, t) ==
    IF b.state = "OPEN" THEN
        LET ft == FailureTime(b) IN
        IF CooldownOver(cfg, ft, t)
        THEN [b |-> [b EXCEPT !.state = "HALF_OPEN", !.half_open_calls = 0], result |-> TRUE]
        ELSE IF ft = None
        THEN [b |-> [b EXCEPT !.state = "HALF_OPEN", !.half_open_calls = 0], result |-> TRUE]
        ELSE Refuse(b)
    ELSE IF b.state = "HALF_OPEN" THEN
        IF ProbeSlotFree(cfg, b)
        THEN [b |-> [b EXCEPT !.half_open_calls = @ + 1], result |-> TRUE]
        ELSE Refuse(b)
    ELSE [b |-> b, result |-> TRUE]

\* check_circuit_breaker(key): the new dict and the returned bool
check_circuit_breaker(cfg, cb, key, t) ==
    LET cb1 == Ensure(cb, key)
        r == CheckBreaker(cfg, cb1[key], t)
    IN [cb |-> [cb1 EXCEPT ![key] = r.b], result |-> r.result]

----------------------------------------------------------------------------
(* record_success *)

\* (mutant of EnoughSuccesses: one success more is asked for)
EnoughSuccessesStrict(b) == b.success_count > HALF_OPEN_SUCCESSES

\* (mutant of EnoughSuccesses: no number of successes is enough)
EnoughSuccessesNever(b) == FALSE

\* line 202
EnoughSuccesses(b) == b.success_count >= HALF_OPEN_SUCCESSES

\* (mutant of Max0: the count is not clamped at 0)
Max0Unclamped(n) == n

\* (mutant of Decaying: successes wear failures off while OPEN as well)
DecayingWhileOpen(b) == b.state \in {"CLOSED", "OPEN"}

\* line 206
Decaying(b) == b.state = "CLOSED"

\* line 208
Max0(n) == IF n > 0 THEN n ELSE 0

\* lines 193-208 on the entry b of the key
SuccessOn(b, t) ==
    LET b1 == [b EXCEPT !.success_count = @ + 1,
                        !.last_success_time = Some(t),
                        !.consecutive_rate_limits = 0]
    IN IF b1.state = "HALF_OPEN" THEN
           IF EnoughSuccesses(b1)
           THEN [b1 EXCEPT !.state = "CLOSED", !.failure_count = 0]
           ELSE b1
       ELSE IF Decaying(b1) THEN
           [b1 EXCEPT !.failure_count = Max0(@ - 1)]
       ELSE b1

\* record_success(key): nothing happens for a key without an entry
record_success(cb, key, t) ==
    IF key \in DOMAIN cb THEN [cb EXCEPT ![key] = SuccessOn(cb[key], t)] ELSE cb

----------------------------------------------------------------------------
(* record_failure *)

\* (mutant of RateLimitCounts: the streak counts one rate limit early)
RateLimitCountsEarly(b) == b.consecutive_rate_limits >= RATE_LIMIT_STREAK

\* line 224
RateLimitCounts(b) == b.consecutive_rate_limits > RATE_LIMIT_STREAK

\* lines 219-229: the counters and timestamps
CountFailure(b, error_type, t) ==
    IF error_type = "rate_limit" THEN
        LET b1 == [b EXCEPT !.consecutive_rate_limits = @ + 1,
                            !.last_rate_limit_time = Some(t)]
        IN IF RateLimitCounts(b1) THEN [b1 EXCEPT !.failure_count = @ + 1] ELSE b1
    ELSE [b EXCEPT !.failure_count = @ + 1, !.last_failure_time = Some(t)]

\* (mutant of ThresholdReached: the breaker opens one failure early)
ThresholdReachedEarly(cfg, b) == b.failure_count >= cfg.failure_threshold - 1

\* line 232
ThresholdReached(cfg, b) == b.failure_count >= cfg.failure_threshold

\* lines 232-240: the transition to OPEN
OpenOnFailure(cfg, b, t) ==
    IF ThresholdReached(cfg, b) THEN
        IF b.state # "OPEN" THEN [b EXCEPT !.state = "OPEN"] ELSE b
    ELSE IF b.state = "HALF_OPEN" THEN
        [b EXCEPT !.state = "OPEN", !.last_failure_time = Some(t)]
    ELSE b

\* record_failure(key, error_type)
record_failure(cfg, cb, key, error_type, t) ==
    LET cb1 == Ensure(cb, key)
    IN [cb1 EXCEPT ![key] = OpenOnFailure(cfg, CountFailure(cb1[key], error_type, t), t)]

----------------------------------------------------------------------------
(* get_circuit_breaker_status *)

get_circuit_breaker_status(cb, key) ==
    IF key \notin DOMAIN cb
    THEN [state |-> "CLOSED", failure_count |-> 0, success_count |-> 0]
    ELSE [state |-> cb[key].state,
          failure_count |-> cb[key].failure_count,
          success_count |-> cb[key].success_count,
          consecutive_rate_limits |-> cb[key].consecutive_rate_limits,
          last_failure_time |-> cb[key].last_failure_time,
          last_success_time |-> cb[key].last_success_time,
          last_rate_limit_time |-> cb[key].last_rate_limit_time]

----------------------------------------------------------------------------
(* Errors an operation raises.  An exception is its class, its HTTP status *)
(* (HTTPStatusError only), the phrases its lower-cased message contains,   *)
(* the number a "retry after N" pattern finds in the message, and the      *)
(* number in its retry-after response header.                              *)

Exc(cls, status, says, retry_text, retry_header) ==
    [cls |-> cls, status |-> status, says |-> says,
     retry_text |-> retry_text, retry_header |-> retry_header]

\* the errors the operations of the model raise: a rate limit with a
\* retry-after header, a server error, and an error no rule classifies
Exceptions ==
    { Exc("HTTPStatusError", 429, {}, None, Some(2)),
      Exc("HTTPStatusError", 500, {}, None, None),
      Exc("Exception", 0, {"boom"}, None, None) }

\* classify_error
classify_error(error) ==
    IF error.cls = "HTTPStatusError" THEN
        IF error.status = 429 THEN "rate_limit"
        ELSE IF error.status \in {502, 503, 504} THEN "service_unavailable"
        ELSE IF 500 <= error.status /\ error.status < 600 THEN "server_error"
        ELSE "unknown"
    ELSE IF error.cls \in {"TimeoutException", "TimeoutError"} THEN "timeout_error"
    ELSE IF error.cls \in {"NetworkError", "ConnectError"} THEN "network_error"
    ELSE IF error.says \cap {"rate limit", "quota"} # {} THEN "rate_limit"
    ELSE IF error.says \cap {"service unavailable", "overloaded"} # {} THEN "service_unavailable"
    ELSE IF error.says \cap {"500", "502", "503", "504", "507"} # {} THEN "server_error"
    ELSE "unknown"

\* extract_retry_after
extract_retry_after(error) ==
    IF error.retry_text # None THEN error.retry_text
    ELSE IF error.cls = "HTTPStatusError" /\ error.retry_header # None THEN error.retry_header
    ELSE None

RECURSIVE Pow(_, _)
Pow(b, e) == IF e = 0 THEN 1 ELSE b * Pow(b, e - 1)

\* calculate_delay, for a configuration without jitter
calculate_delay(cfg, attempt, error_type, retry_after) ==
    LET delay == IF retry_after # None /\ error_type = "rate_limit"
                 THEN retry_after[1] * cfg.rate_limit_recovery_multiplier
                 ELSE cfg.base_delay * Pow(cfg.exponential_factor, attempt - 1)
    IN Min(delay, cfg.max_delay)

\* (mutant of RetryableErrors: every error type is retried)
RetryableErrorsAll == ErrorType

\* lines 141-147
RetryableErrors ==
    {"rate_limit", "server_error", "network_error", "timeout_error", "service_unavailable"}

\* should_retry
should_retry(cfg, error, attempt) ==
    IF attempt >= cfg.max_attempts THEN FALSE
    ELSE classify_error(error) \in RetryableErrors

\* line 257: effective_max_attempts = max_attempts or self.config.max_attempts
EffectiveMaxAttempts(cfg, max_attempts) ==
    IF max_attempts # None /\ max_attempts[1] # 0 THEN max_attempts[1] ELSE cfg.max_attempts

\* (mutant of LastAttempt: the comparison is off by one)
LastAttemptOffByOne(attempt, n) == attempt > n

\* line 290: `if attempt >= effective_max_attempts: break`
LastAttempt(attempt, n) == attempt >= n

\* (mutant of Rejected: the gate is not consulted)
RejectedNever(key, allowed) == FALSE

\* line 253: `if circuit_breaker_key and not self.check_circuit_breaker(...)`
Rejected(key, allowed) == key # None /\ ~allowed

----------------------------------------------------------------------------
(* The configurations the handler may be constructed with (SmartRetryConfig). *)
(* Delays are whole clock units; jitter is off.                               *)

Configs ==
    [max_attempts : 1..MaxAttempts,
     base_delay : {1},
     max_delay : {2},
     exponential_factor : {2},
     jitter : {FALSE},
     failure_threshold : 1..MaxThreshold \cup {ScenarioThreshold},
     recovery_timeout : {RecoveryTimeout},
     half_open_max_calls : 1..HalfOpenMaxCalls,
     rate_limit_recovery_multiplier : {1}]

----------------------------------------------------------------------------
(* Observations kept for the properties; the handler never reads them *)

\* the state of a key as a caller of get_circuit_breaker_status sees it
StateOf(cb, key) == get_circuit_breaker_status(cb, key).state

NoCall == [op |-> "none", key |-> "", kind |-> "", result |-> TRUE, time |-> 0,
           pre |-> "CLOSED"]

Saw(op, key, kind, result, t, pre) ==
    [op |-> op, key |-> key, kind |-> kind, result |-> result, time |-> t, pre |-> pre]

\* what the breaker makes of an error type: a rate limit or a real failure
KindSeen(error_type) == IF error_type = "rate_limit" THEN "rate_limit" ELSE "failure"

NoHist ==
    [fail_streak |-> 0,      \* non-rate-limit failures since the last record_success
     streak_time |-> None,   \* time of the last of them
     rl_run |-> 0,           \* rate-limit failures, while they are all the key has seen (else -1)
     ho_clean |-> FALSE,     \* HALF_OPEN entered and no record_* call since
     ho_checks |-> 0,        \* checks since that entry
     ho_true |-> 0,          \* ... that returned True
     succ_run |-> 0,         \* consecutive record_success calls, the first one while HALF_OPEN
     opened_at |-> None,     \* time of the last record_failure that moved the key into OPEN
     ho_succ |-> 0,          \* record_success calls since HALF_OPEN was last entered (2: two or more)
     ho_admitted |-> 0]      \* checks that returned True in the current HALF_OPEN episode

HistCheck(h, pre, post, result) ==
    IF pre = "OPEN" /\ post = "HALF_OPEN"
    THEN [h EXCEPT !.ho_clean = TRUE, !.ho_checks = 0, !.ho_true = 0, !.ho_succ = 0,
                   !.ho_admitted = 1]
    ELSE LET h1 == IF pre = "HALF_OPEN" /\ result THEN [h EXCEPT !.ho_admitted = @ + 1] ELSE h
         IN IF h.ho_clean
            THEN [h1 EXCEPT !.ho_checks = @ + 1, !.ho_true = IF result THEN @ + 1 ELSE @]
            ELSE h1

HistSuccess(h, pre, post) ==
    [h EXCEPT !.ho_admitted = IF post = "HALF_OPEN" THEN @ ELSE 0,
              !.fail_streak = 0, !.streak_time = None,
              !.rl_run = -1,
              !.ho_clean = FALSE,
              !.succ_run = IF @ > 0 \/ pre = "HALF_OPEN" THEN @ + 1 ELSE 0,
              !.ho_succ = Min(@ + 1, HALF_OPEN_SUCCESSES)]

HistFailure(h, error_type, t, pre, post) ==
    [h EXCEPT !.opened_at = IF pre # "OPEN" /\ post = "OPEN" THEN Some(t) ELSE @,
              !.ho_admitted = IF post = "HALF_OPEN" THEN @ ELSE 0,
              !.fail_streak = IF error_type # "rate_limit" THEN @ + 1 ELSE @,
              !.streak_time = IF error_type # "rate_limit" THEN Some(t) ELSE @,
              !.rl_run = IF error_type = "rate_limit" /\ @ >= 0 THEN @ + 1 ELSE -1,
              !.ho_clean = FALSE,
              !.succ_run = 0]

----------------------------------------------------------------------------
(* The breaker methods as steps of the handler *)

Entry(key) == Ensure(circuit_breakers, key)[key]

DoCheck(key) ==
    LET r == check_circuit_breaker(config, circuit_breakers, key, now)
        pre == StateOf(circuit_breakers, key)
    IN /\ circuit_breakers' = r.cb
       /\ last' = Saw("check", key, "", r.result, now, pre)
       /\ hist' = [hist EXCEPT ![key] = HistCheck(@, pre, r.cb[key].state, r.result)]

DoSuccess(key) ==
    /\ circuit_breakers' = record_success(circuit_breakers, key, now)
    /\ last' = Saw("record_success", key, "", TRUE, now, StateOf(circuit_breakers, key))
    /\ hist' = [hist EXCEPT ![key] = HistSuccess(@, StateOf(circuit_breakers, key),
                                                  StateOf(circuit_breakers', key))]

DoFailure(key, error_type) ==
    /\ circuit_breakers' = record_failure(config, circuit_breakers, key, error_type, now)
    /\ last' = Saw("record_failure", key, KindSeen(error_type), TRUE, now,
                   StateOf(circuit_breakers, key))
    /\ hist' = [hist EXCEPT ![key] =
                   HistFailure(@, error_type, now, StateOf(circuit_breakers, key),
                               StateOf(circuit_breakers', key))]

\* bounds on the counters, so that the state space is finite
CanCheck(key) == hist[key].ho_checks < MaxChecks
CanSucceed(key) == Entry(key).success_count < MaxSuccessCount
CanFail(key, error_type) ==
    /\ Entry(key).failure_count < MaxFailureCount
    /\ error_type = "rate_limit" => Entry(key).consecutive_rate_limits < MaxRateLimits

Check(key) ==
    /\ CanCheck(key)
    /\ DoCheck(key)
    /\ UNCHANGED << config, now, callers >>

RecordSuccess(key) ==
    /\ CanSucceed(key)
    /\ DoSuccess(key)
    /\ UNCHANGED << config, now, callers >>

RecordFailure(key, error_type) ==
    /\ CanFail(key, error_type)
    /\ DoFailure(key, error_type)
    /\ UNCHANGED << config, now, callers >>

Status(key) ==
    /\ last' = Saw("status", key, "", TRUE, now, get_circuit_breaker_status(circuit_breakers, key).state)
    /\ UNCHANGED << config, circuit_breakers, now, callers, hist >>

Tick ==
    /\ now < MaxTime
    /\ now' = now + 1
    /\ UNCHANGED << config, circuit_breakers, callers, last, hist >>

----------------------------------------------------------------------------
(* The handler driven through its breaker methods *)

\* One execute_with_retry call: where it stands, its arguments and locals, and
\* what it did so far (the counts and flags are observations for the properties)
Idle ==
    [pc |-> "idle",           \* idle, running (line 263), sleeping (line 298), done
     key |-> None,            \* circuit_breaker_key
     max_attempts |-> None,   \* the max_attempts argument
     attempt |-> 0,           \* the loop variable
     last_error |-> None,     \* last_error
     wake_at |-> 0,           \* when asyncio.sleep(delay) is over (0 outside a sleep)
     outcome |-> "none",      \* returned, raised, circuit_open, no_error, cancelled
     raised |-> None,         \* the exception raised at line 302
     by |-> 0,                \* the invocation that raised last_error
     raised_by |-> 0,         \* the invocation that raised `raised`
     invocations |-> 0,       \* times func was invoked
     failed |-> 0,            \* invocations that raised
     sleeps |-> 0,            \* asyncio.sleep calls
     rec_failures |-> 0,      \* record_failure calls
     rec_successes |-> 0,     \* record_success calls
     first_open |-> FALSE,    \* the first invocation began while the key was OPEN
     retry_open |-> FALSE,    \* a later invocation began while the key was OPEN
     calls |-> 0]             \* calls this caller began so far

Init ==
    /\ config \in {c \in Configs : /\ c.max_attempts = 1
                                   /\ c.failure_threshold <= MaxThreshold
                                   /\ c.half_open_max_calls = HalfOpenMaxCalls}
    /\ circuit_breakers = << >>
    /\ now = 0
    /\ callers = [c \in Callers |-> Idle]
    /\ last = NoCall
    /\ hist = [k \in Keys |-> NoHist]

Next ==
    \/ \E k \in Keys : Check(k)
    \/ \E k \in Keys : RecordSuccess(k)
    \/ \E k \in Keys, e \in ErrorType : RecordFailure(k, e)
    \/ \E k \in Keys : Status(k)
    \/ Tick

Spec == Init /\ [][Next]_vars

----------------------------------------------------------------------------
(* The rate-limit scenario: a handler with failure_threshold =              *)
(* ScenarioThreshold whose operations are rate limited again and again.     *)

RateLimited(key) ==
    /\ Entry(key).consecutive_rate_limits <= RATE_LIMIT_STREAK + config.failure_threshold
    /\ DoFailure(key, "rate_limit")
    /\ UNCHANGED << config, now, callers >>

InitRL ==
    /\ config \in {c \in Configs : /\ c.max_attempts = 1
                                   /\ c.failure_threshold = ScenarioThreshold
                                   /\ c.half_open_max_calls = HalfOpenMaxCalls}
    /\ circuit_breakers = << >>
    /\ now = 0
    /\ callers = [c \in Callers |-> Idle]
    /\ last = NoCall
    /\ hist = [k \in Keys |-> NoHist]

NextRL ==
    \/ \E k \in Keys : RateLimited(k)
    \/ \E k \in Keys : Check(k)
    \/ \E k \in Keys : RecordSuccess(k)
    \/ \E k \in Keys : Status(k)
    \/ Tick

SpecRL == InitRL /\ [][NextRL]_vars

----------------------------------------------------------------------------
(* calculate_delay on its own: a handler constructed with any delay policy   *)
(* (no jitter), asked for the delay of an attempt without retry-after hint.  *)

DelayConfigs ==
    [max_attempts : {1},
     base_delay : -1..MaxBaseDelay,
     max_delay : 0..MaxMaxDelay,
     exponential_factor : 0..MaxFactor,
     jitter : {FALSE},
     failure_threshold : {1},
     recovery_timeout : {RecoveryTimeout},
     half_open_max_calls : {HalfOpenMaxCalls},
     rate_limit_recovery_multiplier : {1}]

\* calculate_delay(attempt, error_type): the value returned, and the value the
\* next attempt would get
Delay(attempt, error_type) ==
    /\ last' = [op |-> "calculate_delay", attempt |-> attempt, kind |-> error_type,
                delay |-> calculate_delay(config, attempt, error_type, None),
                next |-> calculate_delay(config, attempt + 1, error_type, None)]
    /\ UNCHANGED << config, circuit_breakers, now, callers, hist >>

InitDelay ==
    /\ config \in DelayConfigs
    /\ circuit_breakers = << >>
    /\ now = 0
    /\ callers = [c \in Callers |-> Idle]
    /\ last = NoCall
    /\ hist = [k \in Keys |-> NoHist]

NextDelay == \E attempt \in 1..MaxDelayAttempt, e \in ErrorType : Delay(attempt, e)

SpecDelay == InitDelay /\ [][NextDelay]_vars

----------------------------------------------------------------------------
(* execute_with_retry *)

\* lines 259-263: the loop enters its next iteration and invokes func
Invoke(r, cb) ==
    LET open == r.key # None /\ StateOf(cb, r.key[1]) = "OPEN"
    IN [r EXCEPT !.pc = "running",
                 !.wake_at = 0,
                 !.attempt = @ + 1,
                 !.invocations = @ + 1,
                 !.first_open = IF r.attempt = 0 THEN open ELSE @,
                 !.retry_open = IF r.attempt = 0 THEN @ ELSE @ \/ open]

\* lines 300-304: the loop is over without a return
GiveUp(r) ==
    [r EXCEPT !.pc = "done",
              !.wake_at = 0,
              !.outcome = IF r.last_error # None THEN "raised" ELSE "no_error",
              !.raised = r.last_error,
              !.raised_by = r.by]

\* lines 274-298: what follows the recording of the failure
AfterFailure(cfg, r, error, t) ==
    LET n == EffectiveMaxAttempts(cfg, r.max_attempts)
        r1 == [r EXCEPT !.last_error = Some(error), !.by = r.invocations,
                        !.failed = @ + 1,
                        !.rec_failures = IF r.key # None THEN @ + 1 ELSE @]
    IN IF ~should_retry(cfg, error, r.attempt) THEN GiveUp(r1)
       ELSE IF LastAttempt(r.attempt, n) THEN GiveUp(r1)
       ELSE [r1 EXCEPT !.pc = "sleeping",
                       !.sleeps = @ + 1,
                       !.wake_at = t + calculate_delay(cfg, r.attempt, classify_error(error),
                                                       extract_retry_after(error))]

\* the execute_with_retry calls begun so far
RECURSIVE CallsOf(_)
CallsOf(S) ==
    IF S = {} THEN 0
    ELSE LET c == CHOOSE x \in S : TRUE IN callers[c].calls + CallsOf(S \ {c})

Started == CallsOf(Callers)

\* lines 252-263: the call begins; the gate, then the first invocation
Start(c, key, max_attempts) ==
    LET r == [Idle EXCEPT !.key = key, !.max_attempts = max_attempts,
                          !.calls = callers[c].calls + 1]
        g == check_circuit_breaker(config, circuit_breakers, key[1], now)
    IN /\ callers[c].pc \in {"idle", "done"}
       /\ Started < MaxCalls
       /\ IF key # None
          THEN /\ circuit_breakers' = g.cb
               /\ callers' = [callers EXCEPT ![c] =
                      IF Rejected(key, g.result)
                      THEN [r EXCEPT !.pc = "done", !.outcome = "circuit_open"]
                      ELSE Invoke(r, g.cb)]
          ELSE /\ circuit_breakers' = circuit_breakers
               /\ callers' = [callers EXCEPT ![c] = Invoke(r, circuit_breakers)]
       /\ UNCHANGED << config, now, last, hist >>

\* lines 263-272: func returns
Return(c) ==
    LET r == callers[c]
    IN /\ r.pc = "running"
       /\ IF r.key # None
          THEN /\ CanSucceed(r.key[1])
               /\ circuit_breakers' = record_success(circuit_breakers, r.key[1], now)
          ELSE circuit_breakers' = circuit_breakers
       /\ callers' = [callers EXCEPT ![c] =
              [r EXCEPT !.pc = "done", !.outcome = "returned",
                        !.rec_successes = IF r.key # None THEN @ + 1 ELSE @]]
       /\ UNCHANGED << config, now, last, hist >>

\* lines 274-298: func raises error
Raise(c, error) ==
    LET r == callers[c]
    IN /\ r.pc = "running"
       /\ IF r.key # None
          THEN /\ CanFail(r.key[1], classify_error(error))
               /\ circuit_breakers' = record_failure(config, circuit_breakers, r.key[1],
                                                     classify_error(error), now)
          ELSE circuit_breakers' = circuit_breakers
       /\ callers' = [callers EXCEPT ![c] = AfterFailure(config, r, error, now)]
       /\ UNCHANGED << config, now, last, hist >>

\* line 298 and back to line 259: the sleep is over
Wake(c) ==
    LET r == callers[c]
    IN /\ r.pc = "sleeping"
       /\ now >= r.wake_at
       /\ callers' = [callers EXCEPT ![c] =
              IF r.attempt < EffectiveMaxAttempts(config, r.max_attempts)
              THEN Invoke(r, circuit_breakers)
              ELSE GiveUp(r)]
       /\ UNCHANGED << config, circuit_breakers, now, last, hist >>

\* (mutant of Cancel: the cancelled call records a failure on its way out)
CancelRecording(c) ==
    /\ callers[c].pc \in {"running", "sleeping"}
    /\ callers' = [callers EXCEPT ![c] = [@ EXCEPT !.pc = "done", !.outcome = "cancelled"]]
    /\ circuit_breakers' = IF callers[c].key # None
                           THEN record_failure(config, circuit_breakers, callers[c].key[1],
                                               "unknown", now)
                           ELSE circuit_breakers
    /\ UNCHANGED << config, now, last, hist >>

\* the task is cancelled at one of its awaits (lines 263, 298): CancelledError
\* is no Exception, so it leaves through neither `except` nor record_*
Cancel(c) ==
    /\ callers[c].pc \in {"running", "sleeping"}
    /\ callers' = [callers EXCEPT ![c] = [@ EXCEPT !.pc = "done", !.outcome = "cancelled"]]
    /\ UNCHANGED << config, circuit_breakers, now, last, hist >>

\* check_circuit_breaker called by other code sharing the handler
Probe(key) ==
    /\ circuit_breakers' = check_circuit_breaker(config, circuit_breakers, key, now).cb
    /\ UNCHANGED << config, now, callers, last, hist >>

\* the max_attempts argument: absent, below and above the configured value
Overrides == {None, Some(1), Some(MaxAttempts + 1)}
\* the circuit_breaker_key argument of the calls of the model
KeyArgs == {Some(k) : k \in Keys}

InitExec ==
    /\ config \in {c \in Configs : /\ c.failure_threshold = MaxThreshold
                                   /\ c.max_attempts = MaxAttempts
                                   /\ c.half_open_max_calls = HalfOpenMaxCalls}
    /\ circuit_breakers = << >>
    /\ now = 0
    /\ callers = [c \in Callers |-> Idle]
    /\ last = NoCall
    /\ hist = [k \in Keys |-> NoHist]

NextExec ==
    \/ \E c \in Callers, key \in KeyArgs, n \in Overrides : Start(c, key, n)
    \/ \E c \in Callers : Return(c)
    \/ \E c \in Callers, e \in Exceptions : Raise(c, e)
    \/ \E c \in Callers : Wake(c)
    \/ \E c \in Callers : Cancel(c)
    \/ \E k \in Keys : Probe(k)
    \/ Tick

SpecExec == InitExec /\ [][NextExec]_vars

----------------------------------------------------------------------------
(* execute_with_retry when every call runs its operation to its end: no task *)
(* is cancelled and every check of the breaker is the gate of a call.  Other *)
(* code may record failures of the dependency directly.  An operation that   *)
(* is awaited (line 263) eventually returns or raises.                       *)

InitLive ==
    /\ config \in {c \in Configs : /\ c.failure_threshold = 1
                                   /\ c.max_attempts = MaxAttempts
                                   /\ c.half_open_max_calls = 1}
    /\ circuit_breakers = << >>
    /\ now = 0
    /\ callers = [c \in Callers |-> Idle]
    /\ last = NoCall
    /\ hist = [k \in Keys |-> NoHist]

\* record_failure called by other code sharing the handler: a server error
FailureElsewhere(key) ==
    /\ CanFail(key, "server_error")
    /\ circuit_breakers' = record_failure(config, circuit_breakers, key, "server_error", now)
    /\ UNCHANGED << config, now, callers, last, hist >>

\* the awaited operation of caller c comes to its end
Completes(c) == Return(c) \/ \E e \in Exceptions : Raise(c, e)

NextLive ==
    \/ \E c \in Callers, key \in KeyArgs : Start(c, key, None)
    \/ \E c \in Callers : Completes(c)
    \/ \E c \in Callers : Wake(c)
    \/ \E k \in Keys : FailureElsewhere(k)
    \/ Tick

OperationsComplete == \A c \in Callers : WF_vars(Completes(c))

SpecLive == InitLive /\ [][NextLive]_vars /\ OperationsComplete

----------------------------------------------------------------------------
(* Properties of the breaker *)

HasEntry(key) == key \in DOMAIN circuit_breakers

\* C1: once failure_threshold non-rate-limit failures were recorded on a key with
\* no record_success in between, the key is OPEN and every check of it returns
\* False, as long as no more than recovery_timeout has passed since the last of
\* those failures.
C1_OpenAfterThreshold ==
    \A k \in Keys :
        (/\ hist[k].fail_streak >= config.failure_threshold
         /\ now - hist[k].streak_time[1] <= config.recovery_timeout)
        => /\ HasEntry(k)
           /\ circuit_breakers[k].state = "OPEN"
           /\ (last.op = "check" /\ last.key = k) => last.result = FALSE

\* C1 witness: a check refused at the very end of the cooldown
C1_Witness ==
    \E k \in Keys :
        /\ hist[k].fail_streak >= config.failure_threshold
        /\ last.op = "check" /\ last.key = k /\ last.result = FALSE
        /\ last.time - hist[k].streak_time[1] = config.recovery_timeout

\* C2 as stated: on a key that saw nothing but rate limits, 15 of them leave
\* the breaker not OPEN and the 16th opens it.
C2_SixteenthOpens ==
    \A k \in Keys :
        hist[k].rl_run >= 0 /\ HasEntry(k)
        => /\ hist[k].rl_run <= RATE_LIMIT_STREAK => circuit_breakers[k].state # "OPEN"
           /\ hist[k].rl_run = RATE_LIMIT_STREAK + 1 => circuit_breakers[k].state = "OPEN"

\* C2 amended: on a key that saw nothing but rate limits, the first 15 leave
\* failure_count at 0 and each later one adds 1 to it; the breaker stays CLOSED
\* until the (15 + failure_threshold)-th, the 20th for threshold 5, and that one
\* and every later one leave it OPEN.
C2_OpensAfterThresholdMore ==
    \A k \in Keys :
        hist[k].rl_run >= 0 /\ HasEntry(k)
        => /\ circuit_breakers[k].failure_count = Max0(hist[k].rl_run - RATE_LIMIT_STREAK)
           /\ circuit_breakers[k].state = "CLOSED"
                <=> hist[k].rl_run < RATE_LIMIT_STREAK + config.failure_threshold
           /\ (/\ last.op = "record_failure" /\ last.key = k
               /\ hist[k].rl_run >= RATE_LIMIT_STREAK + config.failure_threshold)
                => circuit_breakers[k].state = "OPEN"

\* C2 witness: the rate limit that opens the breaker
C2_Witness ==
    \E k \in Keys :
        /\ hist[k].rl_run = RATE_LIMIT_STREAK + config.failure_threshold
        /\ last.op = "record_failure" /\ last.pre = "CLOSED"
        /\ circuit_breakers[k].state = "OPEN"

\* C3: after a key entered HALF_OPEN, and while no record_success or
\* record_failure is applied to it, exactly the first half_open_max_calls checks
\* return True and every further one returns False.
C3_ProbesLimited ==
    \A k \in Keys :
        hist[k].ho_clean
        => /\ hist[k].ho_true = Min(hist[k].ho_checks, config.half_open_max_calls)
           /\ (last.op = "check" /\ last.key = k /\ hist[k].ho_checks >= 1)
                => (last.result <=> hist[k].ho_checks <= config.half_open_max_calls)

\* C3 witness: the check after the last probe slot went is refused
C3_Witness ==
    \E k \in Keys :
        /\ hist[k].ho_clean
        /\ hist[k].ho_checks = config.half_open_max_calls + 1
        /\ last.op = "check" /\ last.result = FALSE

\* C4: a record_failure applied to a HALF_OPEN key, whatever the error type,
\* leaves the key OPEN with last_failure_time at the time of that failure.
C4_HalfOpenFailureReopens ==
    \A k \in Keys :
        (last.op = "record_failure" /\ last.key = k /\ last.pre = "HALF_OPEN")
        => /\ circuit_breakers[k].state = "OPEN"
           /\ circuit_breakers[k].last_failure_time = Some(last.time)

\* C10: two record_success calls in a row, the first of them applied to a
\* HALF_OPEN key, leave the key CLOSED with failure_count 0.
C10_TwoSuccessesClose ==
    \A k \in Keys :
        hist[k].succ_run >= 2
        => /\ circuit_breakers[k].state = "CLOSED"
           /\ circuit_breakers[k].failure_count = 0

\* C10 witness: the second success is the one that closes the breaker
C10_Witness ==
    \E k \in Keys :
        /\ hist[k].succ_run = 2
        /\ last.op = "record_success" /\ last.pre = "HALF_OPEN"
        /\ circuit_breakers[k].state = "CLOSED"

----------------------------------------------------------------------------
(* Properties of execute_with_retry *)

\* N of a call: the max_attempts argument if given, else the configured value
N(r) == IF r.max_attempts # None THEN r.max_attempts[1] ELSE config.max_attempts

\* the step begins a call of caller c
StartedBy(c) == callers'[c].calls = callers[c].calls + 1

\* C5: a call whose operation fails k < N times with retryable errors and then
\* succeeds returns the result after k + 1 invocations, k sleeps, k
\* record_failure calls and one record_success call; so a call never gives up
\* on a retryable error after fewer than N failures.
C5_RetriesUntilSuccess ==
    \A c \in Callers :
        LET r == callers[c]
        IN (r.pc = "done" /\ r.key # None)
           => /\ (r.outcome = "raised" /\ classify_error(r.raised[1]) \in RetryableErrors)
                   => r.failed >= N(r)
              /\ r.outcome = "returned"
                   => /\ r.invocations = r.failed + 1
                      /\ r.sleeps = r.failed
                      /\ r.rec_failures = r.failed
                      /\ r.rec_successes = 1

\* C6: a call whose gate check returns False ends at once with the circuit-open
\* error: the operation is not invoked, no record_success or record_failure is
\* applied, and the breaker entries are what they were.
C6_RejectedCallLeavesNoTrace ==
    [][\A c \in Callers, k \in Keys :
          (/\ StartedBy(c)
           /\ callers'[c].key = Some(k)
           /\ ~check_circuit_breaker(config, circuit_breakers, k, now).result)
          => /\ callers'[c].pc = "done"
             /\ callers'[c].outcome = "circuit_open"
             /\ callers'[c].invocations = 0
             /\ callers'[c].rec_successes = 0 /\ callers'[c].rec_failures = 0
             /\ circuit_breakers' = circuit_breakers]_vars

\* C6 witness: a call rejected by a HALF_OPEN key whose probe slots are used up
C6_Witness ==
    \E c \in Callers, k \in Keys :
        /\ callers[c].outcome = "circuit_open" /\ callers[c].key = Some(k)
        /\ StateOf(circuit_breakers, k) = "HALF_OPEN"
        /\ circuit_breakers[k].half_open_calls = config.half_open_max_calls

\* C7 as stated: no invocation of a call's operation begins while the call's
\* key is OPEN, retries of calls admitted earlier included.
C7_NoInvocationWhileOpen ==
    \A c \in Callers : ~callers[c].first_open /\ ~callers[c].retry_open

\* C7 amended: no call begins its first invocation while its key is OPEN (the
\* gate is consulted once, when the call begins); retries of a call admitted
\* earlier are not gated.
C7_NoFirstInvocationWhileOpen ==
    \A c \in Callers : ~callers[c].first_open

\* C7 witness: a call rejected while its key is OPEN
C7_Witness ==
    \E c \in Callers, k \in Keys :
        /\ callers[c].outcome = "circuit_open" /\ callers[c].key = Some(k)
        /\ StateOf(circuit_breakers, k) = "OPEN"

\* C8: when an invocation fails with an error of type unknown, the call ends
\* there: no sleep follows, no further invocation, and that error is raised.
C8_UnknownNotRetried ==
    \A c \in Callers :
        LET r == callers[c]
        IN (r.last_error # None /\ classify_error(r.last_error[1]) = "unknown")
           => /\ r.pc = "done" /\ r.outcome = "raised"
              /\ r.raised = r.last_error
              /\ r.raised_by = r.invocations /\ r.by = r.invocations
              /\ r.sleeps = r.invocations - 1

\* C8 witness: an unknown error at the first of several attempts
C8_Witness ==
    \E c \in Callers :
        LET r == callers[c]
        IN /\ r.last_error # None /\ classify_error(r.last_error[1]) = "unknown"
           /\ r.invocations = 1 /\ N(r) > 1 /\ config.max_attempts > 1

\* C9: when the loop ends without a return, the error raised is the error of
\* the latest invocation, the operation was invoked at most N times, and no
\* sleep followed the last invocation (at most N - 1 sleeps).
C9_LastErrorRaised ==
    \A c \in Callers :
        LET r == callers[c]
        IN /\ r.outcome # "no_error"
           /\ r.outcome = "raised"
                => /\ r.raised = r.last_error
                   /\ r.raised_by = r.invocations
                   /\ r.invocations <= N(r)
                   /\ r.sleeps = r.invocations - 1
                   /\ r.sleeps <= N(r) - 1

\* C9 witness: a call that used up its attempts
C9_Witness ==
    \E c \in Callers :
        LET r == callers[c]
        IN /\ r.outcome = "raised" /\ r.invocations = N(r) /\ r.sleeps >= 1
           /\ classify_error(r.raised[1]) \in RetryableErrors

----------------------------------------------------------------------------
(* Properties of the store: entries, counters and lifecycle *)

\* the step is a record_success call on key k
SuccessStep(k) == last'.op = "record_success" /\ last'.key = k /\ last' # last

\* C11: record_success on a key that has no entry creates the entry and applies
\* the success to it: afterwards the key has an entry, CLOSED, with
\* success_count 1 and consecutive_rate_limits 0.
C11_SuccessCreatesEntry ==
    [][\A k \in Keys :
          (~HasEntry(k) /\ SuccessStep(k))
          => /\ k \in DOMAIN circuit_breakers'
             /\ circuit_breakers'[k].state = "CLOSED"
             /\ circuit_breakers'[k].success_count = 1
             /\ circuit_breakers'[k].consecutive_rate_limits = 0]_vars

\* C12: in every reachable state every entry has failure_count >= 0,
\* success_count >= 0 and 0 <= half_open_calls <= half_open_max_calls; a
\* record_success on a CLOSED key whose failure_count is 0 leaves it at 0; and
\* half_open_calls is 0 right after every step from OPEN to HALF_OPEN.
C12_CountersInRange ==
    /\ [](\A k \in Keys :
            HasEntry(k)
            => /\ circuit_breakers[k].failure_count >= 0
               /\ circuit_breakers[k].success_count >= 0
               /\ circuit_breakers[k].half_open_calls >= 0
               /\ circuit_breakers[k].half_open_calls <= config.half_open_max_calls)
    /\ [][\A k \in Keys :
            HasEntry(k)
            => /\ (/\ SuccessStep(k)
                   /\ circuit_breakers[k].state = "CLOSED"
                   /\ circuit_breakers[k].failure_count = 0)
                  => circuit_breakers'[k].failure_count = 0
               /\ (/\ circuit_breakers[k].state = "OPEN"
                   /\ circuit_breakers'[k].state = "HALF_OPEN")
                  => circuit_breakers'[k].half_open_calls = 0]_vars

\* C12 witness: a second record_success on a key that never failed
C12_Witness ==
    \E k \in Keys :
        /\ HasEntry(k)
        /\ last.op = "record_success" /\ last.key = k /\ last.pre = "CLOSED"
        /\ circuit_breakers[k].last_failure_time = None
        /\ circuit_breakers[k].last_rate_limit_time = None
        /\ circuit_breakers[k].success_count >= 2
        /\ circuit_breakers[k].failure_count = 0

\* C13: every change of a key's lifecycle state is CLOSED to OPEN by a
\* record_failure that leaves failure_count >= failure_threshold, OPEN to
\* HALF_OPEN by a check, HALF_OPEN to CLOSED by a record_success, or HALF_OPEN
\* to OPEN by a record_failure; in particular never CLOSED to HALF_OPEN nor
\* OPEN to CLOSED; and a status query changes nothing.
C13_OnlyListedTransitions ==
    [][/\ \A k \in Keys :
            LET pre == StateOf(circuit_breakers, k)
                post == StateOf(circuit_breakers', k)
                by(op) == last'.op = op /\ last'.key = k
            IN pre # post
               => \/ /\ pre = "CLOSED" /\ post = "OPEN" /\ by("record_failure")
                     /\ circuit_breakers'[k].failure_count >= config.failure_threshold
                  \/ pre = "OPEN" /\ post = "HALF_OPEN" /\ by("check")
                  \/ pre = "HALF_OPEN" /\ post = "CLOSED" /\ by("record_success")
                  \/ pre = "HALF_OPEN" /\ post = "OPEN" /\ by("record_failure")
       /\ (last'.op = "status" /\ last' # last) => circuit_breakers' = circuit_breakers]_vars

\* C13 witness: a record_failure took a HALF_OPEN key back to OPEN
C13_Witness ==
    \E k \in Keys :
        /\ last.op = "record_failure" /\ last.key = k /\ last.pre = "HALF_OPEN"
        /\ StateOf(circuit_breakers, k) = "OPEN"
        /\ circuit_breakers[k].success_count >= 1

----------------------------------------------------------------------------
(* Properties of execute_with_retry and the store together *)

\* invocations of the call that ran to their end: they raised, or returned
Completed(r) == r.failed + (IF r.outcome = "returned" THEN 1 ELSE 0)

\* C14: in a call with a key, every invocation that ran to its end (returned or
\* raised) was followed by exactly one record_success or record_failure, applied
\* before the backoff sleep begins: a sleeping call has recorded a failure for
\* each of its invocations.  A step of a sleeping call (its cancellation, or the
\* end of its sleep) leaves the store as it is, and the calls of other callers go
\* on meanwhile (the witness).
C14_OneMutationBeforeWait ==
    /\ [](\A c \in Callers :
            LET r == callers[c]
            IN r.key # None
               => /\ r.rec_failures + r.rec_successes = Completed(r)
                  /\ r.rec_failures = r.failed
                  /\ r.invocations - Completed(r) \in {0, 1}
                  /\ r.invocations # Completed(r)
                       => r.pc = "running" \/ r.outcome = "cancelled"
                  /\ r.pc = "sleeping"
                       => /\ r.rec_failures = r.invocations
                          /\ r.rec_successes = 0
                          /\ r.sleeps = r.invocations)
    /\ [][\A c \in Callers :
            (callers[c].pc = "sleeping" /\ callers'[c] # callers[c])
            => /\ circuit_breakers' = circuit_breakers
               /\ callers'[c].rec_failures = callers[c].rec_failures
               /\ callers'[c].rec_successes = callers[c].rec_successes]_vars

\* C14 witness: caller c was cancelled in the middle of its sleep after one
\* recorded failure, and the success of another caller was recorded on the same
\* key after that failure (failure_count is back at 0)
C14_Witness ==
    \E c \in Callers, d \in Callers, k \in Keys :
        /\ c # d
        /\ callers[c].key = Some(k) /\ callers[d].key = Some(k)
        /\ callers[c].calls = 1 /\ callers[d].calls = 1
        /\ callers[c].outcome = "cancelled" /\ callers[c].sleeps = 1
        /\ callers[c].wake_at > now
        /\ callers[c].rec_failures = 1 /\ callers[c].invocations = 1
        /\ classify_error(callers[c].last_error[1]) = "server_error"
        /\ callers[d].outcome = "returned" /\ callers[d].invocations = 1
        /\ circuit_breakers[k].failure_count = 0
        /\ circuit_breakers[k].success_count = 1

----------------------------------------------------------------------------
(* Properties of calculate_delay *)

\* min(base_delay * exponential_factor^(attempt-1), max_delay)
ClosedForm(attempt) ==
    Min(config.base_delay * Pow(config.exponential_factor, attempt - 1), config.max_delay)

\* C15 as stated: with jitter disabled and no hint, for every policy and every
\* attempt >= 1 the delay is min(base_delay * exponential_factor^(attempt-1),
\* max_delay), is at most max_delay, and the delay of attempt + 1 is not smaller.
C15_DelayMonotoneEveryPolicy ==
    last.op = "calculate_delay"
    => /\ last.delay = ClosedForm(last.attempt)
       /\ last.delay <= config.max_delay
       /\ last.next >= last.delay

\* C15 amended: the closed form and the bound hold for every policy; the delay
\* is non-decreasing in attempt for the policies with base_delay >= 0 and
\* exponential_factor >= 1.
C15_DelayMonotoneGrowingPolicy ==
    last.op = "calculate_delay"
    => /\ last.delay = ClosedForm(last.attempt)
       /\ last.delay <= config.max_delay
       /\ (config.base_delay >= 0 /\ config.exponential_factor >= 1)
            => last.next >= last.delay

\* C15 witness: a delay that grew from the attempt before and is now clamped
C15_Witness ==
    /\ last.op = "calculate_delay"
    /\ config.base_delay >= 1 /\ config.exponential_factor >= 2
    /\ last.attempt >= 2
    /\ last.delay = config.max_delay
    /\ config.base_delay * Pow(config.exponential_factor, last.attempt - 1) > config.max_delay
    /\ config.base_delay < config.max_delay

\* C16: every move of a key into OPEN starts a full cooldown: after a
\* record_failure moved the key into OPEN at time t0 (from CLOSED or from
\* HALF_OPEN, whatever the error type), every check of the key at a time t with
\* t - t0 <= recovery_timeout returns False.
C16_FullCooldownAfterOpening ==
    \A k \in Keys :
        (/\ last.op = "check" /\ last.key = k
         /\ hist[k].opened_at # None
         /\ last.time - hist[k].opened_at[1] <= config.recovery_timeout)
        => last.result = FALSE

\* C17: a key leaves HALF_OPEN for CLOSED only after at least two
\* record_success calls were applied to it since it last entered HALF_OPEN;
\* successes recorded before that entry do not count.
C17_TwoSuccessesSinceEntry ==
    \A k \in Keys :
        (/\ last.op = "record_success" /\ last.key = k /\ last.pre = "HALF_OPEN"
         /\ StateOf(circuit_breakers, k) = "CLOSED")
        => hist[k].ho_succ >= 2

\* record_failure(key, error_type) in this state would take the 'failed in
\* HALF_OPEN' branch of lines 236-240
TakesHalfOpenBranch(key, error_type) ==
    LET b == CountFailure(Entry(key), error_type, now)
    IN ~ThresholdReached(config, b) /\ b.state = "HALF_OPEN"

\* C18: in every reachable state a key that is OPEN or HALF_OPEN has
\* failure_count >= failure_threshold; so no record_failure, whatever its error
\* type, takes the 'failed in HALF_OPEN' branch, and a key that re-opened did so
\* through the threshold branch.
C18_OpenMeansThresholdReached ==
    \A k \in Keys :
        /\ StateOf(circuit_breakers, k) \in {"OPEN", "HALF_OPEN"}
             => circuit_breakers[k].failure_count >= config.failure_threshold
        /\ \A e \in ErrorType : ~TakesHalfOpenBranch(k, e)

\* C18 witness: a rate limit, which adds nothing to failure_count, re-opened a
\* HALF_OPEN key whose failure_count is exactly the threshold
C18_Witness ==
    \E k \in Keys :
        /\ last.op = "record_failure" /\ last.key = k /\ last.pre = "HALF_OPEN"
        /\ last.kind = "rate_limit"
        /\ StateOf(circuit_breakers, k) = "OPEN"
        /\ circuit_breakers[k].failure_count = config.failure_threshold

\* C20: in one HALF_OPEN episode of a key, from the check that moves it from
\* OPEN to HALF_OPEN until it leaves HALF_OPEN, at most half_open_max_calls
\* checks return True, the check that made the move included.
C20_EpisodeAdmitsAtMostMax ==
    \A k \in Keys :
        StateOf(circuit_breakers, k) = "HALF_OPEN"
        => hist[k].ho_admitted <= config.half_open_max_calls

----------------------------------------------------------------------------
(* Liveness of the HALF_OPEN state *)

\* a call on the key is awaiting its operation
InFlight(k) == \E c \in Callers : callers[c].pc = "running" /\ callers[c].key = Some(k)

HalfOpen(k) == StateOf(circuit_breakers, k) = "HALF_OPEN"

\* the key is HALF_OPEN with a probe slot free and no call awaiting its
\* operation: the next call is admitted
AwaitsNextCall(k) ==
    HalfOpen(k) /\ ~InFlight(k) /\ ProbeSlotFree(config, circuit_breakers[k])

====
